---- MODULE Spec2Model ----
(***************************************************************************)
(* Model of src/slepc_eigensolver.py: class EigenSolver.                   *)
(*                                                                         *)
(* Conventions.                                                            *)
(*  - A full-space vector (the PETSc vector of a dolfin Function) is a     *)
(*    function from the locally owned global DOF indices lo..hi-1 to       *)
(*    values.  A reduced-space vector is a sequence; its TLA+ position     *)
(*    j in 1..n stands for the Python/PETSc position j-1.                  *)
(*  - A boundary condition is the key set of bc.get_boundary_values();     *)
(*    the fixed values are never read by the code.  Python None is the     *)
(*    record NoneObj.                                                      *)
(*  - The external engine (SLEPc EPS), PETSc Scatter and the PETScOptions  *)
(*    registry are modelled by what the calls made by the code do.         *)
(***************************************************************************)
EXTENDS Integers, Sequences, FiniteSets, TLC

\* ------------------------------------------------------------------ bounds
\* global DOF indices are 0..NDof-1
NDof == 3
\* longest list of boundary conditions passed to the constructor
MaxBcs == 2
\* largest n_eig / eigenpair index / aggregation count that is tried
MaxEig == 2
\* cap on the number of recorded get_eigenpair calls in one session
MaxCalls == 2
\* cap on the number of solve calls in one session
MaxSolves == 2

\* ------------------------------------------------------------ basic values
NoneObj == [isNone |-> TRUE, keys |-> {}]

BC(S) == [isNone |-> FALSE, keys |-> S]

Dofs == 0 .. (NDof - 1)

\* ownership ranges [lo, hi) of one process
Ranges == {r \in (0 .. NDof) \X (0 .. NDof) : r[1] <= r[2]}

RangeSet(r) == r[1] .. (r[2] - 1)

\* Python range(lo, hi) as a list
RECURSIVE RangeList(_, _)
RangeList(lo, hi) == IF lo >= hi THEN <<>> ELSE <<lo>> \o RangeList(lo + 1, hi)

\* iteration order of dict.keys(): one fixed order of the key set
RECURSIVE KeysList(_)
KeysList(S) ==
    IF S = {} THEN <<>>
    ELSE LET m == CHOOSE x \in S : \A y \in S : x <= y
         IN <<m>> \o KeysList(S \ {m})

\* Python "x in list"
InList(x, l) == \E k \in 1 .. Len(l) : l[k] = x

\* a freshly allocated dolfin Function(V): every value zero
ZeroFunction(r) == [x \in RangeSet(r) |-> 0]

\* ------------------------------------------------ get_interior_index_set
\* lines 63-65: bc_dofs.extend(bc.get_boundary_values().keys()) for each bc
RECURSIVE bc_dofs_of(_)
bc_dofs_of(boundary_conditions) ==
    IF boundary_conditions = <<>> THEN <<>>
    ELSE KeysList(Head(boundary_conditions).keys)
             \o bc_dofs_of(Tail(boundary_conditions))

\* a None in the list has no get_boundary_values: AttributeError
RaisesAttributeError(boundary_conditions) ==
    \E k \in 1 .. Len(boundary_conditions) : boundary_conditions[k].isNone

get_interior_index_set_last_bc(boundary_conditions, ownership_range) ==
    LET bc_dofs == IF boundary_conditions = <<>> THEN <<>>
                   ELSE KeysList(boundary_conditions[Len(boundary_conditions)].keys)
        keep(x) == ~InList(x, bc_dofs)
    IN SelectSeq(RangeList(ownership_range[1], ownership_range[2]), keep)

\* lines 66-71: the list comprehension, wrapped into an index set
get_interior_index_set(boundary_conditions, ownership_range) ==
    LET bc_dofs == bc_dofs_of(boundary_conditions)
        keep(x) == ~InList(x, bc_dofs)
    IN SelectSeq(RangeList(ownership_range[1], ownership_range[2]), keep)

\* ------------------------------------------------------ PETSc.Scatter
\* Scatter.create(vec_from, is_from=None, vec_to, is_to): is_from=None selects
\* every entry of vec_from in order
projector_create_no_is_to(K_size, index_set, ownership_range) ==
    [nfrom   |-> K_size,
     is_from |-> [j \in 1 .. K_size |-> j],
     to      |-> RangeSet(ownership_range),
     is_to   |-> [j \in 1 .. K_size |-> ownership_range[1] + j - 1]]

\* lines 44-50
projector_create(K_size, index_set, ownership_range) ==
    [nfrom   |-> K_size,
     is_from |-> [j \in 1 .. K_size |-> j],
     to      |-> RangeSet(ownership_range),
     is_to   |-> index_set]

\* the vectors handed to scatter must have the layout given at creation
ShapeOK(p, vec_from, vec_to) ==
    Len(vec_from) = p.nfrom /\ DOMAIN vec_to = p.to

\* forward scatter, insert mode: vec_to[is_to[k]] = vec_from[is_from[k]], k ascending
RECURSIVE ScatterFrom(_, _, _, _)
ScatterFrom(p, vec_from, vec_to, k) ==
    IF k > Len(p.is_to) THEN vec_to
    ELSE ScatterFrom(p, vec_from,
                     [vec_to EXCEPT ![p.is_to[k]] = vec_from[p.is_from[k]]],
                     k + 1)

RECURSIVE ScatterAddFrom(_, _, _, _)
ScatterAddFrom(p, vec_from, vec_to, k) ==
    IF k > Len(p.is_to) THEN vec_to
    ELSE ScatterAddFrom(p, vec_from,
                        [vec_to EXCEPT ![p.is_to[k]] = @ + vec_from[p.is_from[k]]],
                        k + 1)

scatter_add_values(p, vec_from, vec_to) == ScatterAddFrom(p, vec_from, vec_to, 1)

\* projector.scatter(vec_from, vec_to): the contents of vec_to afterwards
scatter(p, vec_from, vec_to) == ScatterFrom(p, vec_from, vec_to, 1)

\* ------------------------------------------------- options and the engine
OptNames == {"eps_max_it", "eps_tol"}

EmptyDict == [o \in {} |-> 0]

\* line 19: the default of the slepc_options parameter
DefaultOptions == [o \in {"eps_max_it"} |-> 100]

\* option dictionaries a caller passes
UserOptions ==
    {[o \in {"eps_max_it"} |-> 50],
     [o \in {"eps_max_it", "eps_tol"} |-> IF o = "eps_max_it" THEN 50 ELSE 1]}

\* dict update: entries of d2 replace those of d1
Merge(d1, d2) ==
    [o \in (DOMAIN d1) \cup (DOMAIN d2) |-> IF o \in DOMAIN d2 THEN d2[o] ELSE d1[o]]

\* lines 74-84
eigensolver_setup ==
    [type |-> "krylovschur", problem_type |-> "GHEP", which |-> "TARGET_MAGNITUDE",
     target |-> 0, st |-> "sinvert", operators |-> <<>>, nev |-> 1,
     settings |-> EmptyDict, solved |-> FALSE, solves |-> 0, nconv |-> 0,
     at_solve |-> EmptyDict]

\* line 57
setOperators(E, K, M) == [E EXCEPT !.operators = <<K, M>>]

\* line 88
setDimensions(E, n_eig) == [E EXCEPT !.nev = n_eig]

\* E.setFromOptions(): every registry entry is applied to the engine
setFromOptions(E, registry) == [E EXCEPT !.settings = Merge(@, registry)]

\* line 91 and 97: the engine runs with its current settings and converges nc pairs
EngineSolve(E, nc) ==
    [E EXCEPT !.solved = TRUE, !.solves = @ + 1, !.nconv = nc,
              !.at_solve = E.settings]

set_options_unwritten(registry, E, slepc_options) ==
    [registry |-> registry, E |-> setFromOptions(E, registry)]

\* lines 102-108: PETScOptions.set(opt, value) for every item, then
\* self.E.setFromOptions(); yields the registry and the engine afterwards
set_options(registry, E, slepc_options) ==
    LET written == Merge(registry, slepc_options)
    IN [registry |-> written, E |-> setFromOptions(E, written)]

\* the i-th converged eigenpair of the engine for a reduced space of size n
\* (distinct non-zero values, so that any misplaced copy shows)
EngineEig(i) == [real |-> i + 1, imag |-> 0]

EngineVr(i, n) == [j \in 1 .. n |-> 100 * (i + 1) + j]

EngineVi(i, n) == [j \in 1 .. n |-> 0 - (100 * (i + 1) + j)]

E_getEigenpair_unchecked(E, i, n) ==
    [ok |-> TRUE, error |-> "", eig |-> EngineEig(i),
     v_r |-> EngineVr(i, n), v_i |-> EngineVi(i, n)]

\* line 114: E.getEigenpair(i, v_r, v_i); EPSGetEigenpair refuses an index
\* outside 0..nconv-1 (PETSC_ERR_ARG_OUTOFRANGE) and an unsolved engine
E_getEigenpair(E, i, n) ==
    IF ~E.solved
    THEN [ok |-> FALSE, error |-> "WrongState", eig |-> EngineEig(0),
          v_r |-> <<>>, v_i |-> <<>>]
    ELSE IF i < 0 \/ i >= E.nconv
    THEN [ok |-> FALSE, error |-> "OutOfRange", eig |-> EngineEig(0),
          v_r |-> <<>>, v_i |-> <<>>]
    ELSE [ok |-> TRUE, error |-> "", eig |-> EngineEig(i),
          v_r |-> EngineVr(i, n), v_i |-> EngineVi(i, n)]

\* ------------------------------------------------------------------ state
VARIABLES
    args,               \* the constructor's arguments
    stage,              \* "new", "ready" (constructed) or "raised" (__init__ raised)
    error,              \* the exception __init__ raised, "" if none
    attrs,              \* names of the attributes assigned on self
    bcs,                \* self.bcs
    index_set_not_bc,   \* self.index_set_not_bc
    projector,          \* self.projector
    K_size,             \* dimension of self.K and self.M
    E,                  \* self.E
    slepc_options,      \* self.slepc_options
    PETScOptions,       \* the process-wide options registry
    created,            \* number of Scatter.create calls so far
    heap,               \* the Functions allocated by get_eigenpair, by handle
    calls,              \* one record per get_eigenpair call, in call order
    last                \* the last operation and what it returned

vars == <<args, stage, error, attrs, bcs, index_set_not_bc, projector, K_size, E,
          slepc_options, PETScOptions, created, heap, calls, last>>

session == <<stage, error, attrs, bcs, index_set_not_bc, projector, K_size, E,
             slepc_options, created>>

\* ---------------------------------------------------- constructor inputs
RECURSIVE ListsUpTo(_, _)
ListsUpTo(S, n) ==
    IF n = 0 THEN {<<>>}
    ELSE ListsUpTo(S, n - 1)
             \cup {Append(l, x) : l \in {m \in ListsUpTo(S, n - 1) : Len(m) = n - 1}, x \in S}

BcObjects == {BC(S) : S \in SUBSET Dofs}

\* bcs omitted (None), or a list of boundary conditions
BcsArgs(n) ==
    {[isList |-> FALSE, val |-> NoneObj]}
        \cup {[isList |-> TRUE, val |-> l] : l \in ListsUpTo(BcObjects, n)}

\* arguments for the checks of the interior selection: every range, long lists
SelectorArgs ==
    [range : Ranges, bcs : BcsArgs(MaxBcs), slepc_options : {DefaultOptions},
     option_prefix : {FALSE}]

\* arguments for the checks of the projector: every range, one condition
ProjectorArgs ==
    [range : Ranges, bcs : BcsArgs(1), slepc_options : {DefaultOptions},
     option_prefix : BOOLEAN]

\* arguments for whole sessions: the default options
SessionArgs ==
    [range : {r \in Ranges : r[1] <= 1 /\ r[2] = NDof}, bcs : BcsArgs(1),
     slepc_options : {DefaultOptions}, option_prefix : {FALSE}]

\* arguments for the checks of the solver options: omitted or passed by the caller
OptionArgs ==
    [range : {r \in Ranges : r[1] <= 1 /\ r[2] = NDof}, bcs : BcsArgs(1),
     slepc_options : {DefaultOptions} \cup UserOptions, option_prefix : {FALSE}]

NoProjector == [nfrom |-> 0, is_from |-> <<>>, to |-> {}, is_to |-> <<>>]

NoLast == [op |-> "none", arg |-> 0, status |-> "ok", first |-> 1, value |-> 0]

InitWith(A) ==
    /\ args \in A
    /\ stage = "new"
    /\ error = ""
    /\ attrs = {}
    /\ bcs = <<>>
    /\ index_set_not_bc = <<>>
    /\ projector = NoProjector
    /\ K_size = 0
    /\ E = eigensolver_setup
    /\ slepc_options = EmptyDict
    /\ PETScOptions = EmptyDict
    /\ created = 0
    /\ heap = <<>>
    /\ calls = <<>>
    /\ last = NoLast

\* ------------------------------------------------------------- __init__
\* lines 29-32
self_bcs(a) == IF a.bcs.isList THEN a.bcs.val ELSE <<a.bcs.val>>

Raise(err) ==
    /\ stage' = "raised"
    /\ error' = err
    /\ UNCHANGED <<attrs, bcs, index_set_not_bc, projector, K_size, E,
                   slepc_options, created>>

\* lines 14-57
Construct ==
    /\ stage = "new"
    /\ LET b == self_bcs(args)
           N == args.range[2] - args.range[1]
       IN IF args.option_prefix
          THEN \* line 27 reads self.E before line 54/56 assigns it
               Raise("AttributeError")
          ELSE IF b # <<>> /\ RaisesAttributeError(b)
          THEN \* line 65 on a None entry
               Raise("AttributeError")
          ELSE IF b # <<>>
          THEN LET idx == get_interior_index_set(b, args.range)
               IN /\ index_set_not_bc' = idx
                  /\ K_size' = Len(idx)
                  /\ projector' = projector_create(Len(idx), idx, args.range)
                  /\ created' = created + 1
                  /\ attrs' = {"bcs", "K", "M", "index_set_not_bc", "projector", "E"}
                  /\ E' = setOperators(eigensolver_setup, Len(idx), Len(idx))
                  /\ bcs' = b
                  /\ slepc_options' = args.slepc_options
                  /\ stage' = "ready"
                  /\ error' = ""
          ELSE /\ K_size' = N
               /\ attrs' = {"bcs", "K", "M", "E"}
               /\ E' = setOperators(eigensolver_setup, N, N)
               /\ bcs' = b
               /\ slepc_options' = args.slepc_options
               /\ stage' = "ready"
               /\ error' = ""
               /\ UNCHANGED <<index_set_not_bc, projector, created>>
    /\ last' = [NoLast EXCEPT !.op = "__init__"]
    /\ UNCHANGED <<args, PETScOptions, heap, calls>>

\* a direct call of the method get_interior_index_set with the arguments' list
\* and range (the method reads nothing of self)
CallGetInteriorIndexSet ==
    /\ last.op \in {"none", "__init__"}
    /\ args.bcs.isList
    /\ last' = [NoLast EXCEPT !.op = "get_interior_index_set",
                              !.value = get_interior_index_set(args.bcs.val, args.range)]
    /\ UNCHANGED <<args, session, PETScOptions, heap, calls>>

\* reduced-space and full-space contents tried by a direct scatter: the
\* destination holds its default 0 or a stale value
SrcValues == {1, 2}

DstValues == {0, 9}

\* self.projector.scatter(vec_from, vec_to) on vectors of the configured layout
ProjectorScatter ==
    /\ stage = "ready"
    /\ "projector" \in attrs
    /\ \E src \in [1 .. K_size -> SrcValues], dst \in [RangeSet(args.range) -> DstValues] :
          /\ ShapeOK(projector, src, dst)
          /\ last' = [NoLast EXCEPT !.op = "scatter",
                                    !.arg = [vec_from |-> src, vec_to |-> dst],
                                    !.value = scatter(projector, src, dst)]
    /\ UNCHANGED <<args, session, PETScOptions, heap, calls>>

InitSelector == InitWith(SelectorArgs)

InitProjector == InitWith(ProjectorArgs)

NextProjector == Construct \/ ProjectorScatter

SpecProjector == InitProjector /\ [][NextProjector]_vars

NextSelector == Construct \/ CallGetInteriorIndexSet

SpecSelector == InitSelector /\ [][NextSelector]_vars

\* ------------------------------------------------------------- solve
Min(a, b) == IF a < b THEN a ELSE b

\* lines 86-100; nc is the number of eigenpairs the engine converges
Solve(n_eig, nc) ==
    /\ stage = "ready"
    /\ E.solves < MaxSolves
    /\ LET E1 == setDimensions(E, n_eig)
           so == set_options(PETScOptions, E1, slepc_options)
           E2 == setFromOptions(so.E, so.registry)
       IN /\ E' = EngineSolve(E2, nc)
          /\ PETScOptions' = so.registry
    /\ attrs' = attrs \cup {"nev", "nconv"}
    /\ last' = [NoLast EXCEPT !.op = "solve", !.arg = n_eig, !.value = nc]
    /\ UNCHANGED <<args, stage, error, bcs, index_set_not_bc, projector, K_size,
                   slepc_options, created, heap, calls>>

\* -------------------------------------------------------- get_eigenpair
NewFunction_cached(h, n) == n

\* lines 111-112: handle of the n-th Function this call allocates
NewFunction(h, n) == Len(h) + n

\* a new Function is zero; an existing object keeps its values
Allocate(h, id) == IF id > Len(h) THEN Append(h, ZeroFunction(args.range)) ELSE h

\* lines 110-118 on the heap and call log st; yields them afterwards with the
\* outcome of the call
get_eigenpair(st, i) ==
    LET id_r  == NewFunction(st.heap, 1)
        id_im == NewFunction(st.heap, 2)
        h0    == Allocate(Allocate(st.heap, id_r), id_im)
        g     == E_getEigenpair(E, i, K_size)
        rec   == [i |-> i, ok |-> g.ok, error |-> g.error, solved |-> E.solved,
                  nconv |-> E.nconv, created |-> created, scattered |-> FALSE,
                  eig |-> g.eig, v_r |-> g.v_r, v_i |-> g.v_i,
                  u_r |-> 0, u_im |-> 0, snap_r |-> <<>>, snap_im |-> <<>>]
    IN IF ~g.ok
       THEN \* the exception leaves get_eigenpair; its locals are dropped
            [heap |-> st.heap, calls |-> Append(st.calls, rec), ok |-> FALSE,
             error |-> g.error]
       ELSE LET f_r  == IF bcs # <<>> THEN scatter(projector, g.v_r, h0[id_r])
                        ELSE h0[id_r]
                h1   == [h0 EXCEPT ![id_r] = f_r]
                f_im == IF bcs # <<>> THEN scatter(projector, g.v_i, h1[id_im])
                        ELSE h1[id_im]
                h2   == [h1 EXCEPT ![id_im] = f_im]
            IN [heap |-> h2,
                calls |-> Append(st.calls,
                                 [rec EXCEPT !.scattered = (bcs # <<>>),
                                             !.u_r = id_r, !.u_im = id_im,
                                             !.snap_r = h2[id_r], !.snap_im = h2[id_im]]),
                ok |-> TRUE, error |-> ""]

Now == [heap |-> heap, calls |-> calls, ok |-> TRUE, error |-> ""]

LastCall(st) == st.calls[Len(st.calls)]

GetEigenpair(i) ==
    /\ stage = "ready"
    /\ Len(calls) < MaxCalls
    /\ LET r == get_eigenpair(Now, i)
       IN /\ heap' = r.heap
          /\ calls' = r.calls
          /\ last' = [NoLast EXCEPT !.op = "get_eigenpair", !.arg = i,
                                    !.status = IF r.ok THEN "ok" ELSE r.error,
                                    !.first = Len(calls) + 1]
    /\ UNCHANGED <<args, session, PETScOptions>>

RECURSIVE LoopEigenpairs_from1(_, _, _)
LoopEigenpairs_from1(st, i, n) ==
    IF i >= n \/ ~st.ok THEN st
    ELSE LoopEigenpairs_from1(get_eigenpair(st, i + 1), i + 1, n)

\* "for i in range(n): ... self.get_eigenpair(i)" of lines 122-123, 131-132 and
\* 142-143, from index i on; an exception ends the loop
RECURSIVE LoopEigenpairs(_, _, _)
LoopEigenpairs(st, i, n) ==
    IF i >= n \/ ~st.ok THEN st
    ELSE LoopEigenpairs(get_eigenpair(st, i), i + 1, n)

\* the records of the calls an operation made, given the log before it
Made(st) == SubSeq(st.calls, Len(calls) + 1, Len(st.calls))

\* lines 120-125
GetEigenvalues(n) ==
    /\ stage = "ready"
    /\ Len(calls) + n <= MaxCalls
    /\ LET r == LoopEigenpairs(Now, 0, n)
       IN /\ heap' = r.heap
          /\ calls' = r.calls
          /\ last' = [NoLast EXCEPT
                        !.op = "get_eigenvalues", !.arg = n,
                        !.status = IF r.ok THEN "ok" ELSE r.error,
                        !.first = Len(calls) + 1,
                        !.value = IF r.ok
                                  THEN [k \in 1 .. n |-> Made(r)[k].eig.real]
                                  ELSE <<>>]
    /\ UNCHANGED <<args, session, PETScOptions>>

\* lines 127-136
GetEigenpairs(n) ==
    /\ stage = "ready"
    /\ Len(calls) + n <= MaxCalls
    /\ LET r == LoopEigenpairs(Now, 0, n)
       IN /\ heap' = r.heap
          /\ calls' = r.calls
          /\ last' = [NoLast EXCEPT
                        !.op = "get_eigenpairs", !.arg = n,
                        !.status = IF r.ok THEN "ok" ELSE r.error,
                        !.first = Len(calls) + 1,
                        !.value = IF r.ok
                                  THEN [k \in 1 .. n |->
                                          [eig |-> Made(r)[k].eig,
                                           u_r |-> Made(r)[k].u_r,
                                           u_im |-> Made(r)[k].u_im]]
                                  ELSE <<>>]
    /\ UNCHANGED <<args, session, PETScOptions>>

\* lines 138-149: the records written to the file, one mode per record
SaveEigenvectors(n, save_imaginary) ==
    /\ stage = "ready"
    /\ Len(calls) + n <= MaxCalls
    /\ LET r == LoopEigenpairs(Now, 0, n)
           written(k) == IF save_imaginary
                         THEN <<[mode |-> k - 1, f |-> Made(r)[k].u_r],
                                [mode |-> k - 1, f |-> Made(r)[k].u_im]>>
                         ELSE <<[mode |-> k - 1, f |-> Made(r)[k].u_r]>>
       IN /\ heap' = r.heap
          /\ calls' = r.calls
          /\ last' = [NoLast EXCEPT
                        !.op = "save_eigenvectors", !.arg = n,
                        !.status = IF r.ok THEN "ok" ELSE r.error,
                        !.first = Len(calls) + 1,
                        !.value = [k \in 1 .. Len(Made(r)) |->
                                     IF Made(r)[k].ok THEN written(k) ELSE <<>>]]
    /\ UNCHANGED <<args, session, PETScOptions>>

\* lines 151-154
PlotEigenpair(i) ==
    /\ stage = "ready"
    /\ Len(calls) < MaxCalls
    /\ LET r == get_eigenpair(Now, i)
       IN /\ heap' = r.heap
          /\ calls' = r.calls
          /\ last' = [NoLast EXCEPT !.op = "plot_eigenpair", !.arg = i,
                                    !.status = IF r.ok THEN "ok" ELSE r.error,
                                    !.first = Len(calls) + 1,
                                    !.value = LastCall(r).u_r]
    /\ UNCHANGED <<args, session, PETScOptions>>

\* sessions that solve once, for MaxEig eigenpairs, and extract eigenpairs
Init == InitWith(SessionArgs)

Next ==
    \/ Construct
    \/ \E nc \in 0 .. Min(MaxEig, K_size) : E.solves = 0 /\ Solve(MaxEig, nc)
    \/ \E i \in 0 .. MaxEig : GetEigenpair(i)
    \/ \E n \in 0 .. MaxEig : GetEigenvalues(n)
    \/ \E n \in 0 .. MaxEig : GetEigenpairs(n)
    \/ \E n \in 0 .. MaxEig : \E b \in BOOLEAN : SaveEigenvectors(n, b)
    \/ \E i \in 0 .. MaxEig : PlotEigenpair(i)

Spec == Init /\ [][Next]_vars

\* sessions that are configured and solved, possibly again
InitOptions == InitWith(OptionArgs)

NextOptions ==
    \/ Construct
    \/ \E n_eig \in 1 .. MaxEig : \E nc \in 0 .. Min(n_eig, K_size) : Solve(n_eig, nc)

SpecOptions == InitOptions /\ [][NextOptions]_vars

\* ------------------------------------------------- checks: interior selection
\* the constrained set of a list of boundary conditions: the union of the key sets
Constrained(B) == UNION {B[k].keys : k \in 1 .. Len(B)}

SeqSet(q) == {q[k] : k \in 1 .. Len(q)}

Ascending(q) == \A j, k \in 1 .. Len(q) : j < k => q[j] < q[k]

\* idx is the interior set of B over the range r, as the contract states it
IsInterior(idx, B, r) ==
    /\ SeqSet(idx) = RangeSet(r) \ Constrained(B)
    /\ Ascending(idx)
    /\ SeqSet(idx) \cap Constrained(B) = {}
    /\ SeqSet(idx) \cup (Constrained(B) \cap RangeSet(r)) = RangeSet(r)
    /\ Len(idx) + Cardinality(Constrained(B) \cap RangeSet(r)) = r[2] - r[1]

\* C1: for every list of boundary conditions (overlapping key sets included) and
\* every ownership range, get_interior_index_set returns exactly the indices of
\* the range that are a key of no condition, ascending and without duplicates;
\* interior and constrained are disjoint, cover the range, and their sizes add
\* up to hi - lo.  Checked on direct calls and on the set the constructor keeps.
C1_InteriorIsComplement ==
    /\ last.op = "get_interior_index_set" => IsInterior(last.value, args.bcs.val, args.range)
    /\ "index_set_not_bc" \in attrs => IsInterior(index_set_not_bc, bcs, args.range)

\* two conditions that share a key inside the range, some DOF left interior
C1_Witness ==
    /\ last.op = "get_interior_index_set"
    /\ Len(args.bcs.val) = 2
    /\ args.bcs.val[1].keys \cap args.bcs.val[2].keys \cap RangeSet(args.range) # {}
    /\ args.bcs.val[1].keys # args.bcs.val[2].keys
    /\ Len(last.value) > 0

\* some supplied boundary condition has a key outside the ownership range
HasForeignKey == Constrained(self_bcs(args)) \ RangeSet(args.range) # {}

\* C9: a boundary condition that constrains a DOF outside [lo, hi) makes the
\* constructor fail with ConfigurationConflict.
C9_ForeignKeyRejected ==
    (stage # "new" /\ HasForeignKey)
        => (stage = "raised" /\ error = "ConfigurationConflict")

\* ------------------------------------------------------ checks: scatter
InteriorSet == SeqSet(index_set_not_bc)

\* C2: scatter copies source[i] into destination[interior[i]] for every i and
\* leaves every destination position outside the interior set unchanged.
C2_ScatterCopiesAndFrames ==
    last.op = "scatter" =>
        /\ \A i \in 1 .. Len(index_set_not_bc) :
               last.value[index_set_not_bc[i]] = last.arg.vec_from[i]
        /\ \A x \in RangeSet(args.range) \ InteriorSet :
               last.value[x] = last.arg.vec_to[x]

\* a scatter past a constrained DOF whose destination value is not the default
C2_Witness ==
    /\ last.op = "scatter"
    /\ \E x \in RangeSet(args.range) \ InteriorSet, y \in InteriorSet :
          x < y /\ last.arg.vec_to[x] = 9 /\ last.arg.vec_to[y] = 9
    /\ \E i, j \in 1 .. Len(index_set_not_bc) : last.arg.vec_from[i] # last.arg.vec_from[j]

\* re-extracting the interior positions of a full vector, in the set's order
Gather(full, idx) == [i \in 1 .. Len(idx) |-> full[idx[i]]]

\* C7: scattering v into a zero-initialized full vector and reading back the
\* interior positions in the index set's order recovers v.
C7_ScatterGatherRoundTrip ==
    (last.op = "scatter" /\ last.arg.vec_to = ZeroFunction(args.range))
        => Gather(last.value, index_set_not_bc) = last.arg.vec_from

C7_Witness ==
    /\ last.op = "scatter"
    /\ last.arg.vec_to = ZeroFunction(args.range)
    /\ Len(index_set_not_bc) >= 2
    /\ index_set_not_bc[1] # args.range[1]
    /\ last.arg.vec_from[1] # last.arg.vec_from[2]

\* ------------------------------------------------------ checks: sessions
\* the constructor was given no boundary conditions: bcs omitted or []
NoBcsGiven == IF args.bcs.isList THEN Len(args.bcs.val) = 0 ELSE args.bcs.val.isNone

\* position x of the full space holds the reduced vector's value of the same position
SameAsReduced(full, v) ==
    /\ Len(v) = args.range[2] - args.range[1]
    /\ \A x \in RangeSet(args.range) : full[x] = v[x - args.range[1] + 1]

OkCalls == {k \in 1 .. Len(calls) : calls[k].ok}

\* C3: constructed without boundary conditions (bcs omitted or an empty list),
\* the session exists and every get_eigenpair returns full-space functions equal,
\* position by position, to the engine's reduced eigenvector (real and imaginary).
C3_NoBcsIdentity ==
    (NoBcsGiven /\ stage # "new") =>
        /\ stage = "ready"
        /\ \A k \in OkCalls :
              /\ SameAsReduced(heap[calls[k].u_r], calls[k].v_r)
              /\ SameAsReduced(heap[calls[k].u_im], calls[k].v_i)

C5_OptionsInEffectAtSolve ==
    E.solved =>
        \A o \in DOMAIN slepc_options :
            /\ o \in DOMAIN PETScOptions /\ PETScOptions[o] = slepc_options[o]
            /\ o \in DOMAIN E.at_solve /\ E.at_solve[o] = slepc_options[o]

\* a caller's eps_max_it, different from the default 100, in effect at the solve
C5_Witness ==
    /\ last.op = "solve"
    /\ args.slepc_options \in UserOptions
    /\ E.at_solve["eps_max_it"] = 50
    /\ E.at_solve["eps_max_it"] # DefaultOptions["eps_max_it"]

\* C6: every session builds its projector exactly once, before any extraction,
\* and every get_eigenpair call uses that projector.
C6_ProjectorBuiltOnce ==
    stage = "ready" =>
        /\ created = 1
        /\ "projector" \in attrs
        /\ \A k \in 1 .. Len(calls) :
              calls[k].created = 1 /\ (calls[k].ok => calls[k].scattered)

IsAggregation == last.op \in {"get_eigenvalues", "get_eigenpairs"}

\* the get_eigenpair calls the last operation made
MadeByLast == SubSeq(calls, last.first, Len(calls))

InIndexOrder == \A k \in 1 .. Len(MadeByLast) : MadeByLast[k].i = k - 1

\* the k-th entry of the returned collection is what the k-th call returned
EntriesMatch ==
    /\ last.status = "ok"
    /\ Len(last.value) = last.arg
    /\ \A k \in 1 .. Len(last.value) :
          /\ k <= Len(MadeByLast)
          /\ MadeByLast[k].ok
          /\ IF last.op = "get_eigenvalues"
             THEN last.value[k] = MadeByLast[k].eig.real
             ELSE /\ last.value[k].eig = MadeByLast[k].eig
                  /\ last.value[k].u_r = MadeByLast[k].u_r
                  /\ last.value[k].u_im = MadeByLast[k].u_im
                  /\ heap[last.value[k].u_r] = MadeByLast[k].snap_r
                  /\ heap[last.value[k].u_im] = MadeByLast[k].snap_im

\* C8 as stated, on a solved session: get_eigenvalues(n) and get_eigenpairs(n)
\* call get_eigenpair exactly n times, with 0, 1, ..., n-1 in that order, and the
\* k-th entry of the returned collection is the result of the call with index k.
C8_ExactlyNCalls ==
    (IsAggregation /\ E.solved) =>
        /\ Len(MadeByLast) = last.arg
        /\ InIndexOrder
        /\ last.status = "ok" => EntriesMatch

\* C8 amended: the calls are made with 0, 1, ... in that order and stop at the
\* first call that fails; if none fails there are exactly n calls and the k-th
\* entry is the result of the call with index k; if one fails it is the last
\* call made, its error leaves the operation and no collection is returned.
C8_CallsInOrderUntilFailure ==
    IsAggregation =>
        /\ InIndexOrder
        /\ Len(MadeByLast) <= last.arg
        /\ \A k \in 1 .. Len(MadeByLast) - 1 : MadeByLast[k].ok
        /\ IF \A k \in 1 .. Len(MadeByLast) : MadeByLast[k].ok
           THEN Len(MadeByLast) = last.arg /\ EntriesMatch
           ELSE /\ last.status = MadeByLast[Len(MadeByLast)].error
                /\ last.status # "ok"
                /\ last.value = <<>>

\* two modes collected by get_eigenpairs
C8_Witness ==
    /\ last.op = "get_eigenpairs"
    /\ last.arg = 2
    /\ last.status = "ok"
    /\ Len(MadeByLast) = 2

ConstrainedOwned == Constrained(bcs) \cap RangeSet(args.range)

\* C10: in a session with boundary conditions, after any sequence of
\* get_eigenpair calls both functions returned by each call are zero at every
\* constrained DOF and still hold what they held when returned; the functions
\* of different calls are different objects.
C10_ReturnedFunctionsStable ==
    (stage = "ready" /\ bcs # <<>>) =>
        /\ \A k \in OkCalls :
              /\ \A x \in ConstrainedOwned :
                    heap[calls[k].u_r][x] = 0 /\ heap[calls[k].u_im][x] = 0
              /\ heap[calls[k].u_r] = calls[k].snap_r
              /\ heap[calls[k].u_im] = calls[k].snap_im
              /\ calls[k].u_r # calls[k].u_im
        /\ \A j, k \in OkCalls :
              j # k => {calls[j].u_r, calls[j].u_im} \cap {calls[k].u_r, calls[k].u_im} = {}

\* two successful extractions of different modes past a constrained DOF
C10_Witness ==
    /\ stage = "ready"
    /\ Len(calls) = 2
    /\ OkCalls = {1, 2}
    /\ calls[1].i # calls[2].i
    /\ ConstrainedOwned # {}
    /\ Len(index_set_not_bc) >= 2

====
